---- MODULE Spec2Model ----
(***************************************************************************)
(* A model of the BitTorrent downloader: Client::new / Client::download_file *)
(* (src/src/client.rs) driving Peer::new / Peer::download_piece and the    *)
(* message framer Message::decode (src/src/peer.rs).                       *)
(*                                                                         *)
(* Four specifications share the module:                                   *)
(*   Spec / FairSpec  the whole run of main(), frames as records;          *)
(*   SpecDecode       one Message::decode call over a byte stream;         *)
(*   SpecBitfield     the bitfield scan of Peer::new as a function;        *)
(*   SpecWire         decode over the bytes of Message::encode, of frames  *)
(*                    at the 18000 ceiling, and of a handshake reply.      *)
(***************************************************************************)
EXTENDS Integers, Sequences, FiniteSets, TLC

VARIABLES
    \* ---- the run of main(): Client::new, then Client::download_file
    pc,               \* position of the single task
    outcome,          \* how the run ended: [kind, what, arg]
    torrent,          \* the parsed metainfo: [plength, length]
    addr,             \* index of the address Client::new is connecting (1-based)
    peers,            \* Client.peers: sequence of [sent_interested, pieces]
    client,           \* main()'s client: Client::new has returned Ok
    idx,              \* download_file's loop index
    cur,              \* index in peers of the peer download_piece runs on
    plength,          \* the piece length passed to download_piece
    downloaded_piece, \* download_piece's buffer, as the segments written so far
    bytes_downloaded, \* download_piece's counter
    block_offset,     \* offset of the Request last sent by download_piece
    buffer,           \* download_file's output: the slices appended so far
    awaiting,         \* the tag argument of the running Message::decode
    expired,          \* tick.elapsed() > 5 s for the running decode
    message,          \* the Message the last decode returned
    \* ---- environment and history
    silent,           \* the awaited peer has stopped sending for good
    noise,            \* frames delivered that made no progress (bounded)
    failed,           \* addresses whose Peer::new failed
    interestedSent,   \* per peer: Interested messages written
    unchokeAwaits,    \* per peer: decode(Unchoke) calls started
    unchokeSeen,      \* per peer: an Unchoke frame was received
    dpCalls,          \* per peer: download_piece calls
    requests,         \* the Requests written by the current download_piece call
    requested,        \* every [peer, idx] a Request was written for
    outstanding,      \* per peer: Requests not yet answered by a matching Piece
    exact,            \* every answer to the current download_piece call was the block asked for
    sink,             \* the bytes written to the output file, as slices
    \* ---- one Message::decode call over bytes (SpecDecode)
    wire,             \* bytes the peer has sent and decode has not read
    sent,             \* the frames the peer sent, as byte sequences
    dpc,              \* position inside decode
    dlength,          \* the length prefix last read
    dexpired,         \* tick.elapsed() > 5 s
    dskipped,         \* zero-length prefixes skipped by this call
    dresult,          \* what decode returned: [kind, tag, payload]
    \* ---- the bitfield scan (SpecBitfield)
    bfPayload,        \* message.payload
    bfPieces,         \* the pieces vector built from it
    bfDone

clientVars == <<pc, outcome, torrent, addr, peers, client, idx, cur, plength,
                downloaded_piece, bytes_downloaded, block_offset, buffer,
                awaiting, expired, message, silent, noise, failed,
                interestedSent, unchokeAwaits, unchokeSeen, dpCalls,
                requests, requested, outstanding, exact, sink>>
decodeVars == <<wire, sent, dpc, dlength, dexpired, dskipped, dresult>>
bfVars     == <<bfPayload, bfPieces, bfDone>>
vars       == <<clientVars, decodeVars, bfVars>>

----------------------------------------------------------------------------
(* Bounds of the model *)

NumPeers == 2          \* addresses the tracker returns
MaxNoise == 2          \* frames per run that make no progress
MaxFrames == 3         \* frames on the wire of one decode call
MaxBitfieldBytes == 2  \* bytes of a Bitfield payload (SpecBitfield)
MaxPayloadLen == 2     \* bytes of a payload in the round trip (SpecWire)

(* Program constants *)

BLOCK_SIZE == 16384
MaxFrameLength == 18000

Choke == 0
Unchoke == 1
Interested == 2
NotInterested == 3
Have == 4
Bitfield == 5
Request == 6
Piece == 7
Cancel == 8

\* a MessageTag::from that finds a tag for every byte
MessageTagFrom_Lenient(b) == b % (Cancel + 1)

\* MessageTag::from: the tag of a byte, or -1 (Err) for an unrecognized byte
MessageTagFrom(b) == IF b \in Choke..Cancel THEN b ELSE -1


----------------------------------------------------------------------------
(* The bitfield scan of Peer::new *)

RECURSIVE Bin(_)
\* format!("{:b}", chunk): the binary digits of chunk, without leading zeros
Bin(n) == IF n < 2 THEN <<n>> ELSE Append(Bin(n \div 2), n % 2)

RECURSIVE ScanBits(_, _, _)
\* the inner loop over bin.chars(): push piece_count at each '1', then count
ScanBits(bits, piece_count, acc) ==
    IF bits = <<>> THEN [pieces |-> acc, piece_count |-> piece_count]
    ELSE ScanBits(Tail(bits), piece_count + 1,
                  IF Head(bits) = 1 THEN acc \cup {piece_count} ELSE acc)

RECURSIVE ScanPayload(_, _, _)
\* the outer loop over message.payload
ScanPayload(payload, piece_count, acc) ==
    IF payload = <<>> THEN acc
    ELSE LET r == ScanBits(Bin(Head(payload)), piece_count, acc)
         IN  ScanPayload(Tail(payload), r.piece_count, r.pieces)

ParseBitfield(payload) == ScanPayload(payload, 0, {})

----------------------------------------------------------------------------
(* The torrent and its pieces *)

\* The metainfo files the run is started on: two one-block pieces of equal
\* length, and two two-block pieces whose last block is short.
Torrents == { [plength |-> 16384, length |-> 32768],
              [plength |-> 32768, length |-> 52768] }

\* Data.piece_count: hashes.len(), one hash per piece of the file
PieceCount(t) == (t.length + t.plength - 1) \div t.plength

PieceIndices(t) == 0 .. PieceCount(t) - 1

\* a download_file that asks for piece_length bytes of every piece
PieceLength_Nominal(t, i) == t.plength

\* download_file's plength of piece i
PieceLength(t, i) ==
    IF i = PieceCount(t) - 1 THEN t.length - t.plength * (PieceCount(t) - 1)
    ELSE t.plength

\* Bytes are kept as segments [src, off, len]: the bytes off .. off+len-1 of
\* piece src of the file.
Segment(src, off, len) == [src |-> src, off |-> off, len |-> len]

RECURSIVE Merge(_)
\* the byte string of a segment list: adjacent segments that continue each
\* other are one run of the same bytes
Merge(segs) ==
    IF Len(segs) < 2 THEN segs
    ELSE LET a == segs[1]
             b == segs[2]
         IN  IF a.src = b.src /\ b.off = a.off + a.len
             THEN Merge(<<Segment(a.src, a.off, a.len + b.len)>>
                        \o SubSeq(segs, 3, Len(segs)))
             ELSE <<a>> \o Merge(Tail(segs))

\* hex::encode(Sha1(slice)): a digest that identifies the bytes hashed
Sha1(t, segs) == Merge(segs)

\* the bytes of piece i of the file
TruePiece(t, i) == <<Segment(i, 0, PieceLength(t, i))>>

\* Data.piece_hashes: torrent.hashes()
PieceHashes(t) == [i \in PieceIndices(t) |-> Sha1(t, TruePiece(t, i))]

\* a download_file without the assertion
HashAccepted_Any(t, i, piece_hash) == TRUE

\* the assertion of download_file: piece_hashes.contains(&piece_hash)
HashAccepted(t, i, piece_hash) ==
    \E j \in PieceIndices(t) : PieceHashes(t)[j] = piece_hash

----------------------------------------------------------------------------
(* Frames, as the run of main() sees them *)

\* A payload is either a few bytes (fewer than the 8 a block header takes) or
\* a block: 4 bytes idx, 4 bytes off, then len data bytes, the bytes of piece
\* src at that offset.
BytesPayload(bs) ==
    [short |-> TRUE, bytes |-> bs, idx |-> 0, off |-> 0, src |-> 0, len |-> 0]

BlockPayload(i, o, src, len) ==
    [short |-> FALSE, bytes |-> <<>>, idx |-> i, off |-> o, src |-> src, len |-> len]

\* a zero length prefix
KeepAlive == [kind |-> "keepalive", tag |-> 0, payload |-> BytesPayload(<<>>)]

\* a frame whose tag byte MessageTag::from rejects
BadTag == [kind |-> "badtag", tag |-> 0, payload |-> BytesPayload(<<>>)]

Msg(tag, payload) == [kind |-> "msg", tag |-> tag, payload |-> payload]

NoMessage == [kind |-> "none", tag |-> 0, payload |-> BytesPayload(<<>>)]

\* tags of the frames a peer sends in this model
RecvTags == {Choke, Unchoke, Piece}

\* Bitfield payloads a peer sends in this model
BitfieldPayloads == { <<>>, <<64>>, <<128>>, <<192>>, <<0, 128>> }

\* data lengths a peer answers a request of block_length bytes with
DataLengths(block_length) ==
    {0, block_length, block_length + 1}

\* a download_piece that asks for a whole block every time
BlockLength_Full(pl, downloaded) == BLOCK_SIZE

\* download_piece's block_length at bytes_downloaded:
\* min(plength - bytes_downloaded, BLOCK_SIZE)
BlockLength(pl, downloaded) ==
    IF pl - downloaded < BLOCK_SIZE THEN pl - downloaded ELSE BLOCK_SIZE

\* another piece of the torrent than idx
OtherPiece == (idx + 1) % PieceCount(torrent)

\* frames that carry the index and offset of the Request last sent: Piece
\* frames with bytes of that piece or of another one, and a frame of another
\* tag
Answers ==
    {Msg(Piece, BlockPayload(idx, block_offset, s, n)) :
       s \in {idx, OtherPiece},
       n \in DataLengths(BlockLength(plength, block_offset))}
    \cup {Msg(Request, BlockPayload(idx, block_offset, idx,
                                    BlockLength(plength, block_offset)))}

\* Piece frames of another index, or of another offset (an earlier block
\* again, a later block)
Strays ==
    {Msg(Piece, BlockPayload(OtherPiece, block_offset, idx,
                             BlockLength(plength, block_offset)))}
    \cup {Msg(Piece, BlockPayload(idx, o, idx, BlockLength(plength, block_offset))) :
            o \in {0, block_offset + BLOCK_SIZE} \ {block_offset}}

\* the frames a peer may deliver to the running decode
FramesOffered ==
    {KeepAlive, BadTag}
    \cup (IF awaiting = Bitfield
          THEN {Msg(t, BytesPayload(b)) : t \in {Bitfield, Unchoke}, b \in BitfieldPayloads}
          ELSE {Msg(t, BytesPayload(<<>>)) : t \in RecvTags})
    \cup (IF awaiting = Piece THEN Answers \cup Strays ELSE {})

\* the test of download_piece: response.idx == piece_idx && response.offset == block_offset
ResponseMatches(m, piece_idx, offset) ==
    m.payload.idx = piece_idx /\ m.payload.off = offset

\* the Piece frame of the Request last sent, with the bytes asked for: the
\* block of that piece at that offset, in its whole length
ExactAnswer(f) ==
    /\ f.tag = Piece
    /\ ~f.payload.short
    /\ ResponseMatches(f, idx, block_offset)
    /\ f.payload.src = idx
    /\ f.payload.len = BlockLength(plength, block_offset)

\* a frame after which the run is where it was: skipped by decode, or
\* discarded (or accepted with no data) by download_piece
IsNoise(f) ==
    \/ f.kind # "msg"
    \/ /\ awaiting = Piece
       /\ ~f.payload.short
       /\ ~(ResponseMatches(f, idx, block_offset) /\ f.payload.len > 0)

----------------------------------------------------------------------------
(* Outcomes of the run *)

Running == [kind |-> "running", what |-> "", arg |-> 0]
Ok == [kind |-> "ok", what |-> "", arg |-> 0]
Err(what, arg) == [kind |-> "err", what |-> what, arg |-> arg]
Panic(what) == [kind |-> "panic", what |-> what, arg |-> 0]

PeerIds == 1 .. NumPeers

\* no decode call over bytes is running
IdleDecode ==
    /\ wire = <<>>
    /\ sent = <<>>
    /\ dpc = "idle"
    /\ dlength = 0
    /\ dexpired = FALSE
    /\ dskipped = 0
    /\ dresult = [kind |-> "none", tag |-> 0, payload |-> <<>>]

\* no bitfield is being scanned
IdleBitfield ==
    /\ bfPayload = <<>>
    /\ bfPieces = {}
    /\ bfDone = FALSE

\* main() before Client::new has done anything
InitClient(start) ==
    /\ pc = start
    /\ outcome = Running
    /\ torrent \in Torrents
    /\ addr = 1
    /\ peers = <<>>
    /\ client = FALSE
    /\ idx = 0
    /\ cur = 0
    /\ plength = 0
    /\ downloaded_piece = <<>>
    /\ bytes_downloaded = 0
    /\ block_offset = 0
    /\ buffer = <<>>
    /\ awaiting = IF start = "new" THEN Bitfield ELSE Piece
    /\ expired = FALSE
    /\ message = NoMessage
    /\ silent = FALSE
    /\ noise = 0
    /\ failed = {}
    /\ interestedSent = [p \in PeerIds |-> 0]
    /\ unchokeAwaits = [p \in PeerIds |-> 0]
    /\ unchokeSeen = [p \in PeerIds |-> FALSE]
    /\ dpCalls = [p \in PeerIds |-> 0]
    /\ requests = <<>>
    /\ requested = {}
    /\ outstanding = [p \in PeerIds |-> 0]
    /\ exact = TRUE
    /\ sink = <<>>

Init == InitClient("new") /\ IdleDecode /\ IdleBitfield

----------------------------------------------------------------------------
(* Message::decode, frame by frame *)

\* let tick = Instant::now(); the loop is entered
StartDecode(tag) ==
    /\ awaiting' = tag
    /\ expired' = FALSE
    /\ pc' = "decode_check"

\* Every error is propagated with ? up to main(), which ends the run; an
\* error inside Peer::new is the failure of the address being connected.
Fail(e) ==
    /\ outcome' = e
    /\ pc' = "done"
    /\ failed' = IF pc \in {"new", "decode_check", "decode_read"} /\ awaiting = Bitfield
                 THEN failed \cup {addr} ELSE failed

\* if tick.elapsed() > 5 s { break } ... bail!("Failed to receive message of tag")
Decode_Check ==
    /\ pc = "decode_check"
    /\ IF expired
       THEN /\ Fail(Err("timeout", awaiting))
            /\ UNCHANGED <<message, noise>>
       ELSE /\ pc' = "decode_read"
            /\ UNCHANGED <<outcome, failed, message, noise>>
    /\ UNCHANGED <<torrent, client, addr, peers, idx, cur, plength, downloaded_piece,
                   bytes_downloaded, block_offset, buffer, awaiting, expired,
                   silent, interestedSent, unchokeAwaits, unchokeSeen, dpCalls,
                   requests, requested, outstanding>>
    /\ UNCHANGED <<exact, sink, decodeVars, bfVars>>

\* where decode's caller continues with the Message
ReturnSite(tag) ==
    IF tag = Bitfield THEN "new_bitfield"
    ELSE IF tag = Unchoke THEN "dp_unchoked"
    ELSE "dp_response"

\* The step of decode on frame f: length == 0 is skipped, a frame whose tag
\* MessageTag::from rejects is read and dropped, any other frame is returned
\* whatever its tag.
DecodeStep(f) ==
    IF f.kind = "msg"
    THEN /\ message' = f
         /\ expired' = FALSE
         /\ pc' = ReturnSite(awaiting)
    ELSE /\ message' = message
         /\ expired' = expired
         /\ pc' = "decode_check"

\* stream.read_u32() and read_exact() complete: the peer delivered a frame
Decode_Recv ==
    /\ pc = "decode_read"
    /\ ~silent
    /\ \E f \in FramesOffered :
         /\ IsNoise(f) => noise < MaxNoise
         /\ noise' = IF IsNoise(f) THEN noise + 1 ELSE noise
         /\ DecodeStep(f)
         /\ exact' = (exact /\ (awaiting = Piece /\ f.kind = "msg" => ExactAnswer(f)))
    /\ UNCHANGED <<outcome, torrent, client, addr, peers, idx, cur, plength,
                   downloaded_piece, bytes_downloaded, block_offset, buffer,
                   awaiting, silent, failed, interestedSent,
                   unchokeAwaits, unchokeSeen, dpCalls, requests, requested, outstanding>>
    /\ UNCHANGED <<sink, decodeVars, bfVars>>

\* stream.read_u32().await? fails: the peer closed the connection
Decode_Eof ==
    /\ pc = "decode_read"
    /\ ~silent
    /\ Fail(Err("io", awaiting))
    /\ UNCHANGED <<torrent, client, addr, peers, idx, cur, plength, downloaded_piece,
                   bytes_downloaded, block_offset, buffer, awaiting, expired,
                   message, silent, noise, interestedSent, unchokeAwaits,
                   unchokeSeen, dpCalls, requests, requested, outstanding>>
    /\ UNCHANGED <<exact, sink, decodeVars, bfVars>>

\* More than 5 seconds pass while the task is suspended in a read.
Tick ==
    /\ pc = "decode_read"
    /\ ~expired
    /\ expired' = TRUE
    /\ UNCHANGED <<pc, outcome, torrent, client, addr, peers, idx, cur, plength,
                   downloaded_piece, bytes_downloaded, block_offset, buffer,
                   awaiting, message, silent, noise, failed, interestedSent,
                   unchokeAwaits, unchokeSeen, dpCalls, requests, requested, outstanding>>
    /\ UNCHANGED <<exact, sink, decodeVars, bfVars>>

\* The awaited peer keeps the connection open and never sends another byte.
PeerGoesSilent ==
    /\ pc = "decode_read"
    /\ ~silent
    /\ silent' = TRUE
    /\ UNCHANGED <<pc, outcome, torrent, client, addr, peers, idx, cur, plength,
                   downloaded_piece, bytes_downloaded, block_offset, buffer,
                   awaiting, expired, message, noise, failed, interestedSent,
                   unchokeAwaits, unchokeSeen, dpCalls, requests, requested, outstanding>>
    /\ UNCHANGED <<exact, sink, decodeVars, bfVars>>

----------------------------------------------------------------------------
(* Client::new and Peer::new *)

\* TcpStream::connect(addr).await? and stream.write_all(handshake).await?
PeerNew_Connect ==
    /\ pc = "new"
    /\ addr <= NumPeers
    /\ \/ /\ StartDecode(Bitfield)
          /\ UNCHANGED <<outcome, failed>>
       \/ /\ Fail(Err("connect", addr))
          /\ UNCHANGED <<awaiting, expired>>
    /\ UNCHANGED <<torrent, client, addr, peers, idx, cur, plength, downloaded_piece,
                   bytes_downloaded, block_offset, buffer, message, silent,
                   noise, interestedSent, unchokeAwaits, unchokeSeen, dpCalls,
                   requests, requested, outstanding>>
    /\ UNCHANGED <<exact, sink, decodeVars, bfVars>>

\* the Peer built from the Message decode returned
NewPeer(m) == [sent_interested |-> FALSE, pieces |-> ParseBitfield(m.payload.bytes)]

\* Ok(Self { .. }) of Peer::new; peers.push(peer)
PeerNew_Bitfield ==
    /\ pc = "new_bitfield"
    /\ peers' = Append(peers, NewPeer(message))
    /\ addr' = addr + 1
    /\ message' = NoMessage
    /\ pc' = "new"
    /\ UNCHANGED <<outcome, torrent, client, idx, cur, plength, downloaded_piece,
                   bytes_downloaded, block_offset, buffer, awaiting, expired,
                   silent, noise, failed, interestedSent,
                   unchokeAwaits, unchokeSeen, dpCalls, requests, requested, outstanding>>
    /\ UNCHANGED <<exact, sink, decodeVars, bfVars>>

\* Ok(Self { peers, file, data }); main() goes on to client.download_file()
ClientNew_Return ==
    /\ pc = "new"
    /\ addr > NumPeers
    /\ client' = TRUE
    /\ idx' = 0
    /\ buffer' = <<>>
    /\ pc' = "select"
    /\ UNCHANGED <<outcome, torrent, addr, peers, cur, plength, downloaded_piece,
                   bytes_downloaded, block_offset, awaiting, expired, message,
                   silent, noise, failed, interestedSent, unchokeAwaits,
                   unchokeSeen, dpCalls, requests, requested, outstanding>>
    /\ UNCHANGED <<exact, sink, decodeVars, bfVars>>

----------------------------------------------------------------------------
(* Client::download_file and Peer::download_piece *)

\* a selection that takes the first peer without asking for the piece
SelectPeer_First(ps, i) == IF Len(ps) > 0 THEN 1 ELSE 0

\* peers.iter_mut().find(|peer| peer.pieces.contains(&idx)): the position of
\* the first peer that has the piece, 0 for None
SelectPeer(ps, i) ==
    IF \E p \in 1 .. Len(ps) : i \in ps[p].pieces
    THEN CHOOSE p \in 1 .. Len(ps) :
           /\ i \in ps[p].pieces
           /\ \A q \in 1 .. p - 1 : i \notin ps[q].pieces
    ELSE 0

\* the head of the for loop: plength, the peer, and bail! when there is none
DownloadFile_Select ==
    /\ pc = "select"
    /\ idx < PieceCount(torrent)
    /\ LET p == SelectPeer(peers, idx)
       IN  IF p = 0
           THEN /\ Fail(Err("unavailable", idx))
                /\ UNCHANGED <<cur, plength>>
           ELSE /\ cur' = p
                /\ plength' = PieceLength(torrent, idx)
                /\ pc' = "dp_entry"
                /\ UNCHANGED <<outcome, failed>>
    /\ UNCHANGED <<torrent, client, addr, peers, idx, downloaded_piece, bytes_downloaded,
                   block_offset, buffer, awaiting, expired, message, silent,
                   noise, interestedSent, unchokeAwaits, unchokeSeen, dpCalls,
                   requests, requested, outstanding>>
    /\ UNCHANGED <<exact, sink, decodeVars, bfVars>>

\* Ok(buffer) once the loop is over: main() goes on to the output file
DownloadFile_Return ==
    /\ pc = "select"
    /\ idx >= PieceCount(torrent)
    /\ pc' = "write"
    /\ UNCHANGED <<outcome, torrent, client, addr, peers, idx, cur, plength, downloaded_piece,
                   bytes_downloaded, block_offset, buffer, awaiting, expired,
                   message, silent, noise, failed, interestedSent,
                   unchokeAwaits, unchokeSeen, dpCalls, requests, requested, outstanding>>
    /\ UNCHANGED <<exact, sink, decodeVars, bfVars>>

RECURSIVE Prefixes(_)
\* the proper prefixes of a sequence of slices
Prefixes(q) ==
    IF q = <<>> THEN {}
    ELSE LET front == SubSeq(q, 1, Len(q) - 1)
         IN  {front} \cup Prefixes(front)

\* main(): File::create(torrent.info.name)?, file.write_all(&buffer)?, Ok(()).
\* File::create may fail, and write_all may fail after a part of the buffer.
Main_Write ==
    /\ pc = "write"
    /\ \/ /\ sink' = buffer
          /\ outcome' = Ok
          /\ pc' = "done"
          /\ UNCHANGED failed
       \/ /\ sink' \in {<<>>} \cup Prefixes(buffer)
          /\ Fail(Err("file", 0))
    /\ UNCHANGED <<torrent, client, addr, peers, idx, cur, plength, downloaded_piece,
                   bytes_downloaded, block_offset, buffer, awaiting, expired,
                   message, silent, noise, interestedSent,
                   unchokeAwaits, unchokeSeen, dpCalls, requests, requested, outstanding>>
    /\ UNCHANGED <<exact, decodeVars, bfVars>>

\* download_piece is entered: vec![0u8; plength], bytes_downloaded = 0, and
\* the test of self.sent_interested
DownloadPiece_Entry ==
    /\ pc = "dp_entry"
    /\ downloaded_piece' = <<>>
    /\ bytes_downloaded' = 0
    /\ block_offset' = 0
    /\ dpCalls' = [dpCalls EXCEPT ![cur] = @ + 1]
    /\ requests' = <<>>
    /\ exact' = TRUE
    /\ pc' = IF peers[cur].sent_interested THEN "dp_loop" ELSE "dp_interested"
    /\ UNCHANGED <<outcome, torrent, client, addr, peers, idx, cur, plength, buffer,
                   awaiting, expired, message, silent, noise, failed,
                   interestedSent, unchokeAwaits, unchokeSeen, requested,
                   outstanding>>
    /\ UNCHANGED <<sink, decodeVars, bfVars>>

\* Message::encode(Interested).await? then Message::decode(Unchoke)
DownloadPiece_Interested ==
    /\ pc = "dp_interested"
    /\ \/ /\ interestedSent' = [interestedSent EXCEPT ![cur] = @ + 1]
          /\ unchokeAwaits' = [unchokeAwaits EXCEPT ![cur] = @ + 1]
          /\ StartDecode(Unchoke)
          /\ UNCHANGED <<outcome, failed>>
       \/ /\ Fail(Err("io", Interested))
          /\ UNCHANGED <<interestedSent, unchokeAwaits, awaiting, expired>>
    /\ UNCHANGED <<torrent, client, addr, peers, idx, cur, plength, downloaded_piece,
                   bytes_downloaded, block_offset, buffer, message, silent,
                   noise, unchokeSeen, dpCalls, requests, requested, outstanding>>
    /\ UNCHANGED <<exact, sink, decodeVars, bfVars>>

\* a download_piece that never records the exchange
MarkInterested_Forgets(ps, p) == ps

\* self.sent_interested = true
MarkInterested(ps, p) == [ps EXCEPT ![p].sent_interested = TRUE]

\* decode(Unchoke) returned a Message: its tag is not looked at
DownloadPiece_Unchoked ==
    /\ pc = "dp_unchoked"
    /\ peers' = MarkInterested(peers, cur)
    /\ unchokeSeen' = [unchokeSeen EXCEPT ![cur] = @ \/ message.tag = Unchoke]
    /\ message' = NoMessage
    /\ pc' = "dp_loop"
    /\ UNCHANGED <<outcome, torrent, client, addr, idx, cur, plength, downloaded_piece,
                   bytes_downloaded, block_offset, buffer, awaiting, expired,
                   silent, noise, failed, interestedSent,
                   unchokeAwaits, dpCalls, requests, requested, outstanding>>
    /\ UNCHANGED <<exact, sink, decodeVars, bfVars>>

\* Request::new(piece_idx, block_offset, block_length)
NewRequest(piece_idx, offset, pl) ==
    [idx |-> piece_idx, off |-> offset, len |-> BlockLength(pl, offset)]

\* the loop body up to the await of the answer: Message::encode(Request).await?
\* then Message::decode(Piece)
DownloadPiece_Request ==
    /\ pc = "dp_loop"
    /\ bytes_downloaded < plength
    /\ block_offset' = bytes_downloaded
    /\ \/ /\ requests' = Append(requests, NewRequest(idx, bytes_downloaded, plength))
          /\ requested' = requested \cup {[peer |-> cur, idx |-> idx]}
          /\ outstanding' = [outstanding EXCEPT ![cur] = @ + 1]
          /\ StartDecode(Piece)
          /\ UNCHANGED <<outcome, failed>>
       \/ /\ Fail(Err("io", Request))
          /\ UNCHANGED <<requests, requested, outstanding, awaiting, expired>>
    /\ UNCHANGED <<torrent, client, addr, peers, idx, cur, plength, downloaded_piece,
                   bytes_downloaded, buffer, message, silent, noise,
                   interestedSent, unchokeAwaits, unchokeSeen, dpCalls>>
    /\ UNCHANGED <<exact, sink, decodeVars, bfVars>>

\* Response::decode(&message): payload[0..4] and payload[4..8] panic on a
\* payload shorter than 8 bytes
ResponseDecodes(m) == ~m.payload.short

\* downloaded_piece[block_offset..block_offset + data.len()] panics past plength
CopyFits(offset, len, pl) == offset + len <= pl

\* copy_from_slice(&data) at block_offset
CopyData(piece, m, offset) ==
    IF m.payload.len = 0 THEN piece
    ELSE Merge(Append(piece, Segment(m.payload.src, offset, m.payload.len)))

\* the Message decode(Piece) returned is taken as a Response
DownloadPiece_Response ==
    /\ pc = "dp_response"
    /\ IF ~ResponseDecodes(message)
       THEN /\ Fail(Panic("Response::decode"))
            /\ UNCHANGED <<downloaded_piece, bytes_downloaded, outstanding>>
       ELSE IF ~ResponseMatches(message, idx, block_offset)
       THEN /\ pc' = "dp_loop"
            /\ UNCHANGED <<outcome, failed, downloaded_piece, bytes_downloaded,
                           outstanding>>
       ELSE IF ~CopyFits(block_offset, message.payload.len, plength)
       THEN /\ Fail(Panic("copy_from_slice"))
            /\ UNCHANGED <<downloaded_piece, bytes_downloaded, outstanding>>
       ELSE /\ downloaded_piece' = CopyData(downloaded_piece, message, block_offset)
            /\ bytes_downloaded' = bytes_downloaded + message.payload.len
            /\ outstanding' = [outstanding EXCEPT ![cur] =
                                 IF message.tag = Piece /\ @ > 0 THEN @ - 1 ELSE @]
            /\ pc' = "dp_loop"
            /\ UNCHANGED <<outcome, failed>>
    /\ message' = NoMessage
    /\ UNCHANGED <<torrent, client, addr, peers, idx, cur, plength, block_offset, buffer,
                   awaiting, expired, silent, noise, interestedSent,
                   unchokeAwaits, unchokeSeen, dpCalls, requests, requested>>
    /\ UNCHANGED <<exact, sink, decodeVars, bfVars>>

\* Ok(downloaded_piece), then in download_file: the digest, the assertion and
\* buffer.extend(&slice)
DownloadPiece_Return ==
    /\ pc = "dp_loop"
    /\ bytes_downloaded >= plength
    /\ IF HashAccepted(torrent, idx, Sha1(torrent, downloaded_piece))
       THEN /\ buffer' = Append(buffer, downloaded_piece)
            /\ idx' = idx + 1
            /\ pc' = "select"
            /\ UNCHANGED <<outcome, failed>>
       ELSE /\ Fail(Panic("assert"))
            /\ UNCHANGED <<buffer, idx>>
    /\ UNCHANGED <<torrent, client, addr, peers, cur, plength, downloaded_piece,
                   bytes_downloaded, block_offset, awaiting, expired, message,
                   silent, noise, interestedSent, unchokeAwaits, unchokeSeen,
                   dpCalls, requests, requested, outstanding>>
    /\ UNCHANGED <<exact, sink, decodeVars, bfVars>>

----------------------------------------------------------------------------

\* the steps of the task itself
TaskStep ==
    \/ PeerNew_Connect
    \/ PeerNew_Bitfield
    \/ ClientNew_Return
    \/ Decode_Check
    \/ DownloadFile_Select
    \/ DownloadFile_Return
    \/ Main_Write
    \/ DownloadPiece_Entry
    \/ DownloadPiece_Interested
    \/ DownloadPiece_Unchoked
    \/ DownloadPiece_Request
    \/ DownloadPiece_Response
    \/ DownloadPiece_Return

\* what the peers and the clock do
EnvStep ==
    \/ Decode_Recv
    \/ Decode_Eof
    \/ Tick
    \/ PeerGoesSilent

Next == TaskStep \/ EnvStep

Spec == Init /\ [][Next]_vars

\* The runtime runs the task whenever it can take a step, and time passes;
\* the peers owe nothing.
FairSpec == Spec /\ WF_vars(TaskStep) /\ WF_vars(Tick)

----------------------------------------------------------------------------
(* Properties of the run of main() *)

\* no peer the client holds has piece i
Unavailable(i) == \A p \in 1 .. Len(peers) : i \notin peers[p].pieces

\* C1: every slice in the output buffer is there only because its digest is
\* the expected hash of its own piece index: the i-th slice appended hashes
\* to piece_hashes[i].
CE_C1 ==
    \A i \in 1 .. Len(buffer) :
        Sha1(torrent, buffer[i]) = PieceHashes(torrent)[i - 1]

\* C2: a Request is written to a peer only after an Unchoke frame has been
\* received from that peer.
CE_C2 == \A r \in requested : unchokeSeen[r.peer]

\* C3: when the peer stays silent after a Request, the pending decode ends
\* with the timeout error naming Piece and the run does not wait forever.
CE_C3 ==
    (pc = "decode_read" /\ awaiting = Piece /\ silent)
        ~> (outcome = Err("timeout", Piece))

\* C4: the failure of one address in Peer::new drops that peer only:
\* Client::new still returns the client, and every address is tried.
CE_C4 == (pc = "done" /\ failed # {}) => (client /\ addr > NumPeers)

\* C6: a frame received in answer to a Request that is not a Piece frame
\* carrying the request's index and offset is discarded: the piece buffer and
\* the byte counter stay as they are and download_piece goes on.
CE_C6 ==
    [][ ( /\ pc = "dp_response"
          /\ ~( /\ message.tag = Piece
                /\ ~message.payload.short
                /\ ResponseMatches(message, idx, block_offset) ) )
        => ( /\ pc' = "dp_loop"
             /\ outcome' = outcome
             /\ downloaded_piece' = downloaded_piece
             /\ bytes_downloaded' = bytes_downloaded ) ]_vars

\* C7: at most one Request is outstanding on a connection, and the offsets
\* of the Requests sent for a piece are strictly ascending.
CE_C7 ==
    /\ \A p \in PeerIds : outstanding[p] <= 1
    /\ \A i \in 1 .. Len(requests) - 1 : requests[i].off < requests[i + 1].off

\* C8: over the download_piece calls on one Peer, Interested is written
\* exactly once and Unchoke awaited exactly once, by the first call: when a
\* second call is entered both have happened, and neither happens again.
Thm_C8 ==
    \A p \in PeerIds :
        /\ interestedSent[p] <= 1
        /\ unchokeAwaits[p] <= 1
        /\ dpCalls[p] >= 2 => (interestedSent[p] = 1 /\ unchokeAwaits[p] = 1)

\* a second download_piece call on a peer has written its Request
Witness_C8 ==
    \E p \in PeerIds :
        dpCalls[p] >= 2 /\ cur = p /\ pc = "decode_read" /\ awaiting = Piece

\* C9 as stated: whenever some piece is unavailable, download_file ends with
\* the piece-unavailable error naming that piece, and no Request for it was
\* sent.
CE_C9 ==
    \A i \in PieceIndices(torrent) :
        (client /\ pc = "done" /\ Unavailable(i))
            => ( /\ outcome = Err("unavailable", i)
                 /\ \A r \in requested : r.idx # i )

\* C9 as amended: when piece i is unavailable, download_file never gets past
\* i, never returns a buffer, never sends a Request for i, and a run that
\* ends at i ends with the piece-unavailable error naming i.
Thm_C9 ==
    \A i \in PieceIndices(torrent) :
        (client /\ Unavailable(i))
            => ( /\ idx <= i
                 /\ outcome # Ok
                 /\ \A r \in requested : r.idx # i
                 /\ (pc = "done" /\ idx = i) => outcome = Err("unavailable", i) )

\* piece 0 was fetched and appended, then piece 1 was found unavailable
Witness_C9 ==
    /\ pc = "done"
    /\ outcome = Err("unavailable", 1)
    /\ Len(buffer) = 1
    /\ Unavailable(1)

RECURSIVE ByteLength(_)
\* the number of bytes of a slice
ByteLength(segs) ==
    IF segs = <<>> THEN 0 ELSE Head(segs).len + ByteLength(Tail(segs))

RECURSIVE TotalLength(_)
\* the number of bytes of a sequence of slices
TotalLength(slices) ==
    IF slices = <<>> THEN 0
    ELSE ByteLength(Head(slices)) + TotalLength(Tail(slices))

\* download_file has returned Ok(buffer) to main()
ReturnedBuffer ==
    pc = "write" \/ outcome = Ok \/ outcome = Err("file", 0)

InDownloadPiece ==
    \/ pc \in {"dp_interested", "dp_unchoked", "dp_loop", "dp_response"}
    \/ pc \in {"decode_check", "decode_read"} /\ awaiting # Bitfield

\* ceil(L / 16384)
BlocksOf(L) == (L + BLOCK_SIZE - 1) \div BLOCK_SIZE

\* the k-th block of a piece of L bytes: blocks of 16384 bytes, the last one
\* holding what is left
ExpectedBlock(i, k, L) ==
    [idx |-> i,
     off |-> (k - 1) * BLOCK_SIZE,
     len |-> IF k = BlocksOf(L) THEN L - (k - 1) * BLOCK_SIZE ELSE BLOCK_SIZE]

\* C13: while the peer answers each Request with exactly the requested
\* bytes, the Requests download_piece has written for a piece of L bytes are
\* the first blocks of (0,16384), (16384,16384), ..., the last one truncated
\* to L, and when the piece is complete they are all ceil(L/16384) of them.
Thm_C13 ==
    (InDownloadPiece /\ exact) =>
        /\ Len(requests) <= BlocksOf(plength)
        /\ \A k \in 1 .. Len(requests) : requests[k] = ExpectedBlock(idx, k, plength)
        /\ (pc = "dp_loop" /\ bytes_downloaded >= plength)
              => Len(requests) = BlocksOf(plength)

\* the piece of 20000 bytes is complete after the blocks 16384 and 3616
Witness_C13 ==
    /\ exact
    /\ pc = "dp_loop"
    /\ plength = 20000
    /\ bytes_downloaded = 20000
    /\ requests = << [idx |-> 1, off |-> 0, len |-> 16384],
                     [idx |-> 1, off |-> 16384, len |-> 3616] >>

\* C14: the output file receives bytes only after download_file has returned
\* the buffer, with a slice for every piece, each one passed by the hash
\* assertion; a run that failed before (Peer::new, a piece no peer has, a
\* read or write error, the timeout, a panic) leaves the file without a byte.
Thm_C14 ==
    /\ sink # <<>> =>
          /\ ReturnedBuffer
          /\ Len(buffer) = PieceCount(torrent)
          /\ \A i \in 1 .. Len(buffer) :
                \E j \in PieceIndices(torrent) : buffer[i] = TruePiece(torrent, j)
          /\ \E n \in 1 .. Len(buffer) : sink = SubSeq(buffer, 1, n)
    /\ (pc = "done" /\ ~ReturnedBuffer) => sink = <<>>
    /\ outcome = Ok => sink = buffer

\* the run failed at piece 1, after piece 0 was fetched and verified, and
\* nothing was written
Witness_C14 ==
    /\ pc = "done"
    /\ outcome.kind \in {"err", "panic"}
    /\ ~ReturnedBuffer
    /\ idx = 1
    /\ Len(buffer) = 1
    /\ sink = <<>>

\* the fetch of piece idx on the selected peer failed with a read or write
\* error, the timeout of decode, or the hash assertion
FetchFailed ==
    /\ pc = "done"
    /\ client
    /\ cur # 0
    /\ outcome.kind \in {"err", "panic"}
    /\ outcome.what \in {"io", "timeout", "assert"}

\* C15: when the fetch of a piece fails on the selected peer and another
\* connected peer advertises the piece, the piece has been asked of such a
\* peer before the run is failed.
CE_C15 ==
    (FetchFailed /\ \E q \in 1 .. Len(peers) : q # cur /\ idx \in peers[q].pieces)
        => \E q \in 1 .. Len(peers) :
              /\ q # cur
              /\ idx \in peers[q].pieces
              /\ dpCalls[q] > 0
              /\ [peer |-> q, idx |-> idx] \in requested

\* C19: no step of download_piece on a response takes more data than the
\* block asked for: the copy never leaves the piece buffer, and
\* bytes_downloaded grows by at most the requested block length and never
\* past plength.
CE_C19 ==
    [][ pc = "dp_response"
        => ( /\ outcome' # Panic("copy_from_slice")
             /\ bytes_downloaded' - bytes_downloaded
                    <= BlockLength(plength, block_offset)
             /\ bytes_downloaded' <= plength ) ]_vars

\* C20: every accepted response, one with zero data bytes too, strictly
\* increases bytes_downloaded, so that each answered Request brings
\* download_piece nearer to its end.
CE_C20 ==
    [][ ( /\ pc = "dp_response"
          /\ message.tag = Piece
          /\ ResponseDecodes(message)
          /\ ResponseMatches(message, idx, block_offset)
          /\ pc' = "dp_loop" )
        => bytes_downloaded' > bytes_downloaded ]_vars

----------------------------------------------------------------------------
(* SpecBitfield: the bitfield scan of Peer::new on every payload *)

RECURSIVE SeqsUpTo(_, _)
\* the sequences over S of length 0 .. n
SeqsUpTo(S, n) ==
    IF n = 0 THEN { <<>> }
    ELSE LET shorter == SeqsUpTo(S, n - 1)
         IN  shorter \cup { Append(q, x) : q \in shorter, x \in S }

Bytes == 0 .. 255

InitBitfield ==
    /\ InitClient("idle")
    /\ torrent = [plength |-> 16384, length |-> 32768]
    /\ IdleDecode
    /\ bfPayload \in SeqsUpTo(Bytes, MaxBitfieldBytes)
    /\ bfPieces = {}
    /\ bfDone = FALSE

\* for chunk in message.payload { .. }
Bitfield_Scan ==
    /\ ~bfDone
    /\ dpc = "idle"
    /\ pc = "idle"
    /\ bfPieces' = ParseBitfield(bfPayload)
    /\ bfDone' = TRUE
    /\ UNCHANGED <<bfPayload, clientVars, decodeVars>>

NextBitfield == Bitfield_Scan

SpecBitfield == InitBitfield /\ [][NextBitfield]_vars

\* 2^n
Pow2(n) == IF n = 0 THEN 1 ELSE IF n = 1 THEN 2 ELSE IF n = 2 THEN 4
           ELSE IF n = 3 THEN 8 ELSE IF n = 4 THEN 16 ELSE IF n = 5 THEN 32
           ELSE IF n = 6 THEN 64 ELSE 128

\* bit n of a byte, bit 7 the most significant
BitOf(byte, n) == (byte \div Pow2(n)) % 2

\* C5: the piece set holds 8*j + b exactly when bit 7-b of byte j is 1.
CE_C5 ==
    bfDone =>
        bfPieces = { n \in 0 .. 8 * Len(bfPayload) - 1 :
                       BitOf(bfPayload[(n \div 8) + 1], 7 - (n % 8)) = 1 }

----------------------------------------------------------------------------
(* SpecDecode: one Message::decode call, byte by byte *)

\* write_u32: 4 bytes, big-endian
U32BE(n) == << (n \div 16777216) % 256, (n \div 65536) % 256,
               (n \div 256) % 256, n % 256 >>

\* read_u32 of 4 bytes, big-endian. A value of 2^31 or more is held as
\* 2^31 - 1: decode only compares it with 0 and with the ceiling.
ReadU32(b) ==
    IF b[1] > 127 THEN 2147483647
    ELSE b[1] * 16777216 + b[2] * 65536 + b[3] * 256 + b[4]

\* an encode that leaves the tag byte out of the length
Encode_PayloadLength(tag, payload) == U32BE(Len(payload)) \o <<tag>> \o payload

\* Message::encode: u32_be(payload.len() + 1), the tag byte, the payload
Encode(tag, payload) == U32BE(Len(payload) + 1) \o <<tag>> \o payload

\* What a peer puts on the wire in this model: keep-alives, frames of every
\* tag with a short payload, frames whose tag byte is no tag, and a length
\* prefix over the ceiling.
WirePayloads == { <<>>, <<7>> }

KeepAliveFrame == [kind |-> "keepalive", tag |-> 0, payload |-> <<>>]

TaggedFrames ==
    { [kind |-> "msg", tag |-> t, payload |-> q] :
        t \in Choke .. Cancel + 1, q \in WirePayloads }

OversizePrefix == [kind |-> "prefix", tag |-> 0, payload |-> <<>>]

WireFrames == {KeepAliveFrame, OversizePrefix} \cup TaggedFrames

\* the bytes of a frame
FrameBytes(f) ==
    IF f.kind = "keepalive" THEN U32BE(0)
    ELSE IF f.kind = "prefix" THEN U32BE(MaxFrameLength + 1)
    ELSE IF f.kind = "handshake" THEN f.payload
    ELSE Encode(f.tag, f.payload)

RECURSIVE Concat(_)
Concat(frames) ==
    IF frames = <<>> THEN <<>>
    ELSE FrameBytes(Head(frames)) \o Concat(Tail(frames))

InitDecode ==
    /\ InitClient("idle")
    /\ torrent = [plength |-> 16384, length |-> 32768]
    /\ IdleBitfield
    /\ sent \in SeqsUpTo(WireFrames, MaxFrames)
    /\ wire = Concat(sent)
    /\ dpc = "check"
    /\ dlength = 0
    /\ dexpired = FALSE
    /\ dskipped = 0
    /\ dresult = [kind |-> "none", tag |-> 0, payload |-> <<>>]

DecodeOk(tag, payload) == [kind |-> "ok", tag |-> tag, payload |-> payload]
DecodeErr(what, tag) == [kind |-> what, tag |-> tag, payload |-> <<>>]

\* if tick.elapsed() > Duration::from_secs(5) { break } and the bail! after
\* the loop
D_Check ==
    /\ dpc = "check"
    /\ IF dexpired
       THEN /\ dresult' = DecodeErr("timeout", awaiting)
            /\ dpc' = "done"
       ELSE /\ dpc' = "read_len"
            /\ UNCHANGED dresult
    /\ UNCHANGED <<wire, sent, dlength, dexpired, dskipped, clientVars, bfVars>>

\* a decode that takes a zero length for a frame
IsSkipped_NoKeepAlive(length) == length > MaxFrameLength

\* if length == 0 || length > 18000 { continue }
IsSkipped(length) == length = 0 \/ length > MaxFrameLength

\* let length = stream.read_u32().await?
D_ReadLength ==
    /\ dpc = "read_len"
    /\ Len(wire) >= 4
    /\ LET length == ReadU32(SubSeq(wire, 1, 4))
       IN  /\ wire' = SubSeq(wire, 5, Len(wire))
           /\ dlength' = length
           /\ IF IsSkipped(length)
              THEN /\ dpc' = "check"
                   /\ dskipped' = IF length = 0 THEN dskipped + 1 ELSE dskipped
              ELSE /\ dpc' = "read_body"
                   /\ UNCHANGED dskipped
    /\ UNCHANGED <<sent, dexpired, dresult, clientVars, bfVars>>

\* stream.read_exact(&mut buffer).await?; MessageTag::from(buffer[0]);
\* buffer[0] of an empty buffer panics
D_ReadBody ==
    /\ dpc = "read_body"
    /\ Len(wire) >= dlength
    /\ LET buf == SubSeq(wire, 1, dlength)
       IN  /\ wire' = SubSeq(wire, dlength + 1, Len(wire))
           /\ IF buf = <<>>
              THEN /\ dresult' = DecodeErr("panic", awaiting)
                   /\ dpc' = "done"
              ELSE IF MessageTagFrom(buf[1]) # -1
              THEN /\ dresult' = DecodeOk(MessageTagFrom(buf[1]), Tail(buf))
                   /\ dpc' = "done"
              ELSE /\ dpc' = "check"
                   /\ UNCHANGED dresult
    /\ UNCHANGED <<sent, dlength, dexpired, dskipped, clientVars, bfVars>>

\* a read fails with ?: the peer closed the connection before the bytes the
\* read waits for
D_Eof ==
    /\ \/ dpc = "read_len" /\ Len(wire) < 4
       \/ dpc = "read_body" /\ Len(wire) < dlength
    /\ dresult' = DecodeErr("io", awaiting)
    /\ dpc' = "done"
    /\ UNCHANGED <<wire, sent, dlength, dexpired, dskipped, clientVars, bfVars>>

\* More than 5 seconds pass while decode is suspended in a read.
D_Tick ==
    /\ dpc \in {"read_len", "read_body"}
    /\ ~dexpired
    /\ dexpired' = TRUE
    /\ UNCHANGED <<wire, sent, dpc, dlength, dskipped, dresult, clientVars, bfVars>>

NextDecode == D_Check \/ D_ReadLength \/ D_ReadBody \/ D_Eof \/ D_Tick

SpecDecode == InitDecode /\ [][NextDecode]_vars

\* the peer sent keep-alives (any number, none too) and then one frame with
\* a recognized tag
KeepAlivesThenFrame ==
    /\ sent # <<>>
    /\ \A i \in 1 .. Len(sent) - 1 : sent[i] = KeepAliveFrame
    /\ sent[Len(sent)].kind = "msg"
    /\ sent[Len(sent)].tag \in Choke .. Cancel

\* C10 as stated: on keep-alives followed by one valid frame, decode returns
\* that frame's tag and payload, never an error.
CE_C10 ==
    (KeepAlivesThenFrame /\ dpc = "done")
        => dresult = DecodeOk(sent[Len(sent)].tag, sent[Len(sent)].payload)

\* C10 as amended: decode returns that frame's tag and payload, unless the
\* 5 seconds were over when a keep-alive had just been skipped: then, and
\* only then, it ends with the timeout error.
Thm_C10 ==
    (KeepAlivesThenFrame /\ dpc = "done")
        => \/ dresult = DecodeOk(sent[Len(sent)].tag, sent[Len(sent)].payload)
           \/ /\ dresult = DecodeErr("timeout", awaiting)
              /\ dexpired
              /\ dskipped >= 1

\* two keep-alives were skipped and the frame after them returned
Witness_C10 ==
    /\ KeepAlivesThenFrame
    /\ dpc = "done"
    /\ dskipped >= 2
    /\ dresult = DecodeOk(sent[Len(sent)].tag, sent[Len(sent)].payload)

\* the peer sent whole frames only: no length prefix over the ceiling
WholeFrames == \A i \in 1 .. Len(sent) : sent[i].kind # "prefix"

\* frame i of the stream has a tag byte of 0 .. 8
ValidAt(i) == sent[i].kind = "msg" /\ sent[i].tag \in Choke .. Cancel

\* the first frame of the stream with a tag byte of 0 .. 8, or 0
FirstValid ==
    IF \E i \in 1 .. Len(sent) : ValidAt(i)
    THEN CHOOSE i \in 1 .. Len(sent) : ValidAt(i) /\ \A j \in 1 .. i - 1 : ~ValidAt(j)
    ELSE 0

\* C16: decode never returns a Message for a frame whose tag byte is outside
\* 0 .. 8. On a stream of whole frames such a frame is read in its whole
\* length and the same call goes on to the next frame: what decode returns
\* is the first frame with a tag byte of 0 .. 8, with the frames after it
\* left unread, and the call fails only when the stream or the 5 seconds
\* are over.
Thm_C16 ==
    /\ dresult.kind = "ok" => dresult.tag \in Choke .. Cancel
    /\ WholeFrames =>
          /\ dresult.kind = "ok" =>
                /\ FirstValid # 0
                /\ dresult = DecodeOk(sent[FirstValid].tag, sent[FirstValid].payload)
                /\ wire = Concat(SubSeq(sent, FirstValid + 1, Len(sent)))
          /\ dresult.kind = "io" => (FirstValid = 0 /\ wire = <<>>)
          /\ dresult.kind = "timeout" => dexpired
          /\ dresult.kind # "panic"

\* a frame with tag byte 9 was read and dropped, and the frame after it
\* returned
Witness_C16 ==
    /\ Len(sent) >= 2
    /\ sent[1].kind = "msg"
    /\ sent[1].tag = Cancel + 1
    /\ sent[1].payload # <<>>
    /\ FirstValid = 2
    /\ dpc = "done"
    /\ dresult = DecodeOk(sent[2].tag, sent[2].payload)

----------------------------------------------------------------------------
(* SpecWire: Message::encode against Message::decode, frames at the ceiling,
   and the stream as Peer::new finds it *)

\* n zero bytes
Zeros(n) == [i \in 1 .. n |-> 0]

PayloadBytes == {0, 7, 255}

\* the longest payload whose length prefix is not over the ceiling
BoundaryPayload == Zeros(MaxFrameLength - 1)

\* a payload one byte longer; its bytes 4 .. 9 are 0,0,0,2 and 1,9
BigPayload == <<0, 0, 0, 0, 0, 0, 2, 1, 9>> \o Zeros(MaxFrameLength - 9)

MsgFrame(t, q) == [kind |-> "msg", tag |-> t, payload |-> q]

\* one frame written by Message::encode, nothing before or after it
RoundTripStreams ==
    { << MsgFrame(t, q) >> :
        t \in Choke .. Cancel,
        q \in SeqsUpTo(PayloadBytes, MaxPayloadLen) \cup {BoundaryPayload, BigPayload} }

\* a frame over the ceiling, then a frame under it
OversizeStreams ==
    { << MsgFrame(t, BigPayload), f >> :
        t \in {Choke, Piece},
        f \in { MsgFrame(Have, <<0, 0, 0, 1>>), MsgFrame(Unchoke, <<>>) } }

\* "BitTorrent protocol"
ProtocolName ==
    <<66, 105, 116, 84, 111, 114, 114, 101, 110, 116, 32,
      112, 114, 111, 116, 111, 99, 111, 108>>

\* HandShake::to_bytes: 19, the protocol name, 8 reserved bytes, the info
\* hash, the peer id
HandShakeBytes(reserved, info_hash, peer_id) ==
    <<19>> \o ProtocolName \o reserved \o info_hash \o peer_id

\* reserved bytes: none set, and the extension bits many clients set
ReservedBytes == { Zeros(8), <<0, 0, 0, 0, 0, 16, 0, 5>> }

\* info hashes: one whose 4-byte groups are all over the ceiling, one that
\* starts 0,0,0,3
InfoHashes ==
    { <<214, 159, 145, 230, 178, 174, 76, 84, 36, 104,
        209, 7, 58, 113, 212, 234, 19, 135, 154, 127>>,
      <<0, 0, 0, 3, 5, 160, 0, 84, 36, 104,
        209, 7, 58, 113, 212, 234, 19, 135, 154, 127>> }

\* peer ids: "-TR2940-k8hj0wgej6ch", and one that starts 0,0,0,2
PeerIdBytes ==
    { <<45, 84, 82, 50, 57, 52, 48, 45, 107, 56,
        104, 106, 48, 119, 103, 101, 106, 54, 99, 104>>,
      <<0, 0, 0, 2, 1, 0, 48, 45, 107, 56,
        104, 106, 48, 119, 103, 101, 106, 54, 99, 104>> }

\* the 68 bytes a peer answers the handshake with
HandshakeReplies ==
    { [kind |-> "handshake", tag |-> 0, payload |-> HandShakeBytes(r, h, p)] :
        r \in ReservedBytes, h \in InfoHashes, p \in PeerIdBytes }

\* What Peer::new leaves for decode(Bitfield) to read: the handshake reply,
\* which it has not read, and then the peer's first frame, if the peer sends
\* one.
HandshakeStreams ==
    { <<h>> : h \in HandshakeReplies }
    \cup { <<h, MsgFrame(Bitfield, q)>> :
             h \in HandshakeReplies, q \in { <<128>>, <<192>> } }

InitWire ==
    /\ InitClient("idle")
    /\ torrent = [plength |-> 16384, length |-> 32768]
    /\ IdleBitfield
    /\ sent \in RoundTripStreams \cup OversizeStreams \cup HandshakeStreams
    /\ wire = Concat(sent)
    /\ dpc = "check"
    /\ dlength = 0
    /\ dexpired = FALSE
    /\ dskipped = 0
    /\ dresult = [kind |-> "none", tag |-> 0, payload |-> <<>>]

SpecWire == InitWire /\ [][NextDecode]_vars

\* the stream is one frame of a tag of MessageTag
RoundTrip ==
    /\ Len(sent) = 1
    /\ sent[1].kind = "msg"
    /\ sent[1].tag \in Choke .. Cancel

\* C11 as stated: decode of the bytes encode(tag, payload) wrote returns the
\* same tag and payload, for every tag and every payload length.
CE_C11 ==
    (RoundTrip /\ dpc = "done")
        => dresult = DecodeOk(sent[1].tag, sent[1].payload)

\* C11 as amended: the round trip holds for payloads of up to 17999 bytes,
\* whose length prefix is at most 18000; a longer payload is not returned.
Thm_C11 ==
    (RoundTrip /\ dpc = "done")
        => IF Len(sent[1].payload) + 1 <= MaxFrameLength
           THEN dresult = DecodeOk(sent[1].tag, sent[1].payload)
           ELSE dresult # DecodeOk(sent[1].tag, sent[1].payload)

\* a Piece frame with a payload of 17999 bytes went through
Witness_C11 ==
    /\ RoundTrip
    /\ sent[1].tag = Piece
    /\ Len(sent[1].payload) = MaxFrameLength - 1
    /\ dpc = "done"
    /\ dresult = DecodeOk(Piece, sent[1].payload)

\* the peer sent a frame with a length prefix over the ceiling, and then a
\* frame under it
OversizeThenFrame ==
    /\ Len(sent) = 2
    /\ sent[1].kind = "msg"
    /\ Len(sent[1].payload) + 1 > MaxFrameLength
    /\ sent[2].kind = "msg"

\* C17: once decode has skipped the length prefix over the ceiling, what is
\* left to read starts at the length prefix of the peer's next frame, and a
\* Message decode returns is that next frame.
CE_C17 ==
    OversizeThenFrame =>
        /\ (dpc = "check" /\ dlength > MaxFrameLength)
              => wire = FrameBytes(sent[2])
        /\ dresult.kind = "ok"
              => dresult = DecodeOk(sent[2].tag, sent[2].payload)

\* the peer answered the handshake and then sent a frame
HandshakeThenFrame ==
    /\ Len(sent) = 2
    /\ sent[1].kind = "handshake"
    /\ sent[2].kind = "msg"

\* C18: whatever the reserved, info-hash and peer-id bytes of the handshake
\* reply are, the Message that decode(Bitfield) returns to Peer::new is the
\* first frame the peer sent after its handshake.
CE_C18 ==
    (HandshakeThenFrame /\ dresult.kind = "ok")
        => dresult = DecodeOk(sent[2].tag, sent[2].payload)

====
